---- MODULE Spec2Model ----
(***************************************************************************)
(* Model of rolling_returns.py: construction of a NAV series from raw      *)
(* records (get_nav_data), the as-of lookup (last_nav_on_or_before), the   *)
(* reference dates and the annualised return (monthly_rolling_return) and  *)
(* the catalog loop with its per-item failure handling (build_results).    *)
(*                                                                         *)
(* A calendar date is its proleptic Gregorian ordinal, the integer that    *)
(* datetime.date.toordinal() gives; date - timedelta(days = n) is the      *)
(* subtraction of n from it.                                               *)
(***************************************************************************)
EXTENDS Integers, Sequences, FiniteSets, TLC

VARIABLES
    today,      \* what dt.date.today() returns now
    window,     \* SpecDates: the two reference dates derived from today
    raw,        \* SpecSeries: the "data" list of the response
    df,         \* the frame get_nav_data returned last (df_nav), or NotBuilt
    target,     \* SpecSeries: target_date of the last lookup
    found,      \* SpecSeries: what that lookup returned
    rr,         \* SpecSeries: what monthly_rolling_return(df) returned
    scheme_codes, \* Spec: the catalog, AMC -> category -> plan -> code
    pc,         \* Spec: position of build_results in its loops
    ai,         \* Spec: index of the AMC being iterated
    ci,         \* Spec: index of the category being iterated
    pi,         \* Spec: index in ["Direct", "Regular"]
    results,    \* Spec: category -> list of rows
    row,        \* Spec: the row under construction
    feed,       \* Spec: code -> the response the data source gives for it
    calls,      \* Spec: the calls of get_nav_data made so far, in order
    errors,     \* Spec: the items that took the except branch
    ticks       \* Spec: midnights passed during the run

vars == <<today, window, raw, df, target, found, rr, scheme_codes, pc, ai, ci,
          pi, results, row, feed, calls, errors, ticks>>

-----------------------------------------------------------------------------
(* Bounds of the model. *)

FirstYear == 2023
LastYear == 2025
\* SpecSeries: the longest "data" list a response carries
MaxRecords == 3
\* Spec: the size of the catalog, counted in (AMC, category) pairs, an AMC
\* without categories counting as one
MaxRows == 2
\* Spec: the midnights that may pass while build_results runs
MaxTicks == 1

-----------------------------------------------------------------------------
(* The calendar of datetime.date. *)

IsLeap(y) == (y % 4 = 0) /\ ((y % 100 # 0) \/ (y % 400 = 0))

DaysInMonth(y, m) ==
    IF m = 2 THEN (IF IsLeap(y) THEN 29 ELSE 28)
    ELSE IF m \in {4, 6, 9, 11} THEN 30 ELSE 31

RECURSIVE DaysBeforeMonth(_, _)
DaysBeforeMonth(y, m) ==
    IF m = 1 THEN 0 ELSE DaysBeforeMonth(y, m - 1) + DaysInMonth(y, m - 1)

DaysBeforeYear(y) ==
    (y - 1) * 365 + ((y - 1) \div 4) - ((y - 1) \div 100) + ((y - 1) \div 400)

\* date(y, m, d).toordinal()
Ymd2Ord(y, m, d) == DaysBeforeYear(y) + DaysBeforeMonth(y, m) + d

CalendarYears == (FirstYear - 2)..(LastYear + 1)

\* date.fromordinal(n).year, .month, .day
YearOf(n) ==
    CHOOSE y \in CalendarYears :
        DaysBeforeYear(y) < n /\ n <= DaysBeforeYear(y + 1)

MonthOf(n) ==
    LET y == YearOf(n)
        k == n - DaysBeforeYear(y)
    IN  CHOOSE m \in 1..12 :
            DaysBeforeMonth(y, m) < k /\ k <= DaysBeforeMonth(y, m) + DaysInMonth(y, m)

DayOf(n) == n - DaysBeforeYear(YearOf(n)) - DaysBeforeMonth(YearOf(n), MonthOf(n))

\* date.replace(day = 1)
ReplaceDay1(n) == Ymd2Ord(YearOf(n), MonthOf(n), 1)

\* date - dt.timedelta(days = k)
MinusDays(n, k) == n - k

\* A variant of last_day_prev_month that keeps the month and takes its day 1.
LastDayPrevMonthNoStep(t) == ReplaceDay1(t)

\* (today.replace(day=1) - dt.timedelta(days=1))
last_day_prev_month(t) == MinusDays(ReplaceDay1(t), 1)

\* (last_day_prev_month.replace(day=1) - dt.timedelta(days=1))
last_day_two_months_ago(t) == MinusDays(ReplaceDay1(last_day_prev_month(t)), 1)

AllDays == Ymd2Ord(FirstYear, 1, 1)..Ymd2Ord(LastYear, 12, 31)

-----------------------------------------------------------------------------
(* Floating point values: a finite value is the exact fraction n/d in lowest *)
(* terms with d > 0; inf, -inf and nan are the IEEE specials. "none" is      *)
(* Python's None and "raise" an exception leaving the expression.            *)

RECURSIVE Gcd(_, _)
Gcd(a, b) == IF b = 0 THEN a ELSE Gcd(b, a % b)

Abs(x) == IF x < 0 THEN -x ELSE x

Fin(n, d) ==
    LET sn == IF d < 0 THEN -n ELSE n
        sd == Abs(d)
        g == Gcd(Abs(sn), sd)
    IN  [k |-> "fin", n |-> sn \div g, d |-> sd \div g]

Inf == [k |-> "inf", n |-> 0, d |-> 1]
NegInf == [k |-> "ninf", n |-> 0, d |-> 1]
NaN == [k |-> "nan", n |-> 0, d |-> 1]
NoneVal == [k |-> "none", n |-> 0, d |-> 1]
Raised == [k |-> "raise", n |-> 0, d |-> 1]
NotComputed == [k |-> "pending", n |-> 0, d |-> 1]

IsFinite(x) == x.k = "fin"
IsNumber(x) == x.k \in {"fin", "inf", "ninf", "nan"}
Sign(x) ==
    IF x.k = "inf" THEN 1 ELSE IF x.k = "ninf" THEN -1
    ELSE IF x.n > 0 THEN 1 ELSE IF x.n < 0 THEN -1 ELSE 0
Signed(s) == IF s > 0 THEN Inf ELSE NegInf

\* x == 0 on floats
IsZero(x) == x.k = "fin" /\ x.n = 0

\* a - b
FSub(a, b) ==
    IF a.k = "raise" \/ b.k = "raise" THEN Raised
    ELSE IF a.k = "nan" \/ b.k = "nan" THEN NaN
    ELSE IF a.k = "fin" /\ b.k = "fin" THEN Fin(a.n * b.d - b.n * a.d, a.d * b.d)
    ELSE IF a.k = "fin" THEN Signed(-Sign(b))
    ELSE IF b.k = "fin" THEN a
    ELSE IF a.k = b.k THEN NaN ELSE a

\* a / b: Python raises ZeroDivisionError when b == 0
FDiv(a, b) ==
    IF a.k = "raise" \/ b.k = "raise" THEN Raised
    ELSE IF IsZero(b) THEN Raised
    ELSE IF a.k = "nan" \/ b.k = "nan" THEN NaN
    ELSE IF a.k = "fin" /\ b.k = "fin" THEN Fin(a.n * b.d, a.d * b.n)
    ELSE IF a.k = "fin" THEN Fin(0, 1)
    ELSE IF b.k = "fin" THEN Signed(Sign(a) * Sign(b))
    ELSE NaN

\* a * b
FMul(a, b) ==
    IF a.k = "raise" \/ b.k = "raise" THEN Raised
    ELSE IF a.k = "nan" \/ b.k = "nan" THEN NaN
    ELSE IF a.k = "fin" /\ b.k = "fin" THEN Fin(a.n * b.n, a.d * b.d)
    ELSE IF Sign(a) * Sign(b) = 0 THEN NaN
    ELSE Signed(Sign(a) * Sign(b))

-----------------------------------------------------------------------------
(* get_nav_data: the raw records and their parsing. *)

\* The "date" field of a raw record: a dd-mm-yyyy text, another text, or no
\* such key in the record.
DateText(d, m, y) == [form |-> "dmy", d |-> d, m |-> m, y |-> y]
DateJunk == [form |-> "text", d |-> 0, m |-> 0, y |-> 0]
DateMissing == [form |-> "absent", d |-> 0, m |-> 0, y |-> 0]

\* The "nav" field of a raw record: a decimal text, the text "inf", another
\* text, or no such key in the record.
NavText(v) == [form |-> "decimal", v |-> v]
NavInf == [form |-> "inf", v |-> 0]
NavJunk == [form |-> "text", v |-> 0]
NavMissing == [form |-> "absent", v |-> 0]

NaT == [nat |-> TRUE, ord |-> 0]

\* pd.to_datetime(x, dayfirst=True, errors="coerce") of one field
to_datetime(x) ==
    IF /\ x.form = "dmy"
       /\ x.m \in 1..12
       /\ x.d >= 1 /\ x.d <= DaysInMonth(x.y, x.m)
    THEN [nat |-> FALSE, ord |-> Ymd2Ord(x.y, x.m, x.d)]
    ELSE NaT

\* pd.to_numeric(x, errors="coerce") of one field
to_numeric(x) ==
    IF x.form = "decimal" THEN Fin(x.v, 1)
    ELSE IF x.form = "inf" THEN Inf
    ELSE NaN

\* df["date"] = ...; df["nav"] = ... (lines 54-55)
ParseRows(data) ==
    [i \in 1..Len(data) |->
        [date |-> to_datetime(data[i].date), nav |-> to_numeric(data[i].nav)]]

\* A variant of dropna that looks at the date column alone.
DropNaDateOnly(rows) ==
    LET Keep(r) == ~r.date.nat
    IN  SelectSeq(rows, Keep)

\* .dropna(subset=["date", "nav"])
dropna(rows) ==
    LET Keep(r) == ~r.date.nat /\ r.nav.k # "nan"
    IN  SelectSeq(rows, Keep)

Injections(n) == {f \in [1..n -> 1..n] : \A i, j \in 1..n : f[i] = f[j] => i = j}

\* .sort_values("date").reset_index(drop=True): pandas sorts with quicksort,
\* which fixes no order among rows of equal date, so every arrangement of
\* the rows that is ordered by date is a possible outcome.
sort_values(rows) ==
    LET n == Len(rows)
        Arr(f) == [i \in 1..n |-> [date |-> rows[f[i]].date.ord, nav |-> rows[f[i]].nav]]
    IN  {Arr(f) : f \in {g \in Injections(n) :
                            \A i \in 1..(n - 1) :
                                rows[g[i]].date.ord <= rows[g[i + 1]].date.ord}}

\* The frame has a column only if some record carries the key.
HasColumns(data) ==
    /\ \E i \in 1..Len(data) : data[i].date.form # "absent"
    /\ \E i \in 1..Len(data) : data[i].nav.form # "absent"

\* get_nav_data on a response: raises RuntimeError on a status other than 200
\* and on an empty "data" list, KeyError on a frame without a "date" or "nav"
\* column; otherwise (exc = "") returns one of the frames in .frames.
get_nav_data(resp) ==
    IF resp.status # 200 THEN [exc |-> "RuntimeError", frames |-> {}]
    ELSE IF resp.data = <<>> THEN [exc |-> "RuntimeError", frames |-> {}]
    ELSE IF ~HasColumns(resp.data) THEN [exc |-> "KeyError", frames |-> {}]
    ELSE [exc |-> "", frames |-> sort_values(dropna(ParseRows(resp.data)))]

-----------------------------------------------------------------------------
(* last_nav_on_or_before and monthly_rolling_return. *)

Absent == [hit |-> FALSE, date |-> 0, nav |-> NoneVal]

\* A variant of last_nav_on_or_before that takes the first row, not the last.
LastNavTakesFirst(rows, target_date) ==
    LET Before(r) == r.date <= target_date
        df_before == SelectSeq(rows, Before)
    IN  IF df_before = <<>> THEN Absent
        ELSE [hit |-> TRUE, date |-> df_before[1].date, nav |-> df_before[1].nav]

last_nav_on_or_before(rows, target_date) ==
    LET Before(r) == r.date <= target_date
        df_before == SelectSeq(rows, Before)
    IN  IF df_before = <<>> THEN Absent
        ELSE [hit |-> TRUE,
              date |-> df_before[Len(df_before)].date,
              nav |-> df_before[Len(df_before)].nav]

\* A variant of monthly_rolling_return whose guard is days < 0.
MonthlyRollingReturnWeakGuard(rows, t) ==
    LET t1 == last_nav_on_or_before(rows, last_day_prev_month(t))
        t0 == last_nav_on_or_before(rows, last_day_two_months_ago(t))
        days == t1.date - t0.date
    IN  IF ~t0.hit \/ ~t1.hit THEN NoneVal
        ELSE IF days < 0 \/ IsZero(t0.nav) THEN NoneVal
        ELSE IF days = 0 THEN Raised
        ELSE FMul(FDiv(FSub(t1.nav, t0.nav), t0.nav), Fin(365, days))

monthly_rolling_return(rows, t) ==
    LET t1 == last_nav_on_or_before(rows, last_day_prev_month(t))
        t0 == last_nav_on_or_before(rows, last_day_two_months_ago(t))
        start_nav == t0.nav
        end_nav == t1.nav
        days == t1.date - t0.date
    IN  IF ~t0.hit \/ ~t1.hit THEN NoneVal
        ELSE IF days <= 0 \/ IsZero(start_nav) THEN NoneVal
        ELSE FMul(FDiv(FSub(end_nav, start_nav), start_nav), Fin(365, days))

NotBuilt == [state |-> "none", rows |-> <<>>]

-----------------------------------------------------------------------------
(* SpecDates: the reference dates, for every current date. *)

NotRun == [AMC |-> "-"]

NoWindow == [set |-> FALSE, start |-> 0, end |-> 0]

IdleRun ==
    /\ scheme_codes = <<>>
    /\ pc = "idle"
    /\ ai = 0 /\ ci = 0 /\ pi = 0
    /\ results = <<>>
    /\ row = NotRun
    /\ feed = <<>>
    /\ calls = <<>>
    /\ errors = {}
    /\ ticks = 0

IdleSeries ==
    /\ raw = <<>>
    /\ df = NotBuilt
    /\ target = 0
    /\ found = Absent
    /\ rr = NotComputed

runVars == <<scheme_codes, pc, ai, ci, pi, results, row, feed, calls, errors, ticks>>
seriesVars == <<raw, df, target, found, rr>>

InitDates ==
    /\ today \in AllDays
    /\ window = NoWindow
    /\ IdleRun
    /\ IdleSeries

\* Lines 67-69 of monthly_rolling_return: the two dates it looks up.
ResolveDates ==
    /\ ~window.set
    /\ window' = [set |-> TRUE,
                  start |-> last_day_two_months_ago(today),
                  end |-> last_day_prev_month(today)]
    /\ UNCHANGED <<today, runVars, seriesVars>>

\* Midnight passes: dt.date.today() returns the next day from now on.
Midnight ==
    /\ window.set
    /\ today + 1 \in AllDays
    /\ today' = today + 1
    /\ window' = NoWindow
    /\ UNCHANGED <<runVars, seriesVars>>

NextDates == ResolveDates \/ Midnight

SpecDates == InitDates /\ [][NextDates]_vars

\* The last calendar day of month m of year y.
LastOfMonth(y, m) == Ymd2Ord(y, m, DaysInMonth(y, m))

PrevMonthYear(y, m) == IF m = 1 THEN y - 1 ELSE y
PrevMonth(m) == IF m = 1 THEN 12 ELSE m - 1

\* C8: for every current date, end is the last calendar day of the month
\* before the current month and start the last calendar day of the month
\* before end's month (year rollover and leap February included), so that
\* start < end < today and end - start is 28..31 days.
C8_ReferenceDates ==
    window.set =>
        LET y == YearOf(today)
            m == MonthOf(today)
            ey == PrevMonthYear(y, m)
            em == PrevMonth(m)
        IN  /\ window.end = LastOfMonth(ey, em)
            /\ window.start = LastOfMonth(PrevMonthYear(ey, em), PrevMonth(em))
            /\ window.start < window.end
            /\ window.end < today
            /\ window.end - window.start \in 28..31

\* C8 witness: the dates were resolved on a 1 March of a leap year, where end
\* is 29 February and start 31 January.
C8_Witness ==
    /\ window.set
    /\ MonthOf(today) = 3 /\ DayOf(today) = 1 /\ IsLeap(YearOf(today))
    /\ window.end - window.start = 29

-----------------------------------------------------------------------------
(* SpecSeries: one response turned into a series, looked up and evaluated. *)

\* The raw records a response is made of: observations on three dates, on
\* two of them at two prices (0 among them), one with the price text "inf",
\* one whose date is no calendar date, one whose date is no date at all and
\* one whose price is no number.
SeriesRecords ==
    {[date |-> DateText(31, 1, 2024), nav |-> NavText(0)],
     [date |-> DateText(31, 1, 2024), nav |-> NavText(100)],
     [date |-> DateText(15, 2, 2024), nav |-> NavText(100)],
     [date |-> DateText(15, 2, 2024), nav |-> NavText(110)],
     [date |-> DateText(5, 3, 2024), nav |-> NavText(100)],
     [date |-> DateText(31, 1, 2024), nav |-> NavInf],
     [date |-> DateText(31, 2, 2024), nav |-> NavText(100)],
     [date |-> DateJunk, nav |-> NavText(110)],
     [date |-> DateText(15, 2, 2024), nav |-> NavJunk]}

SeqsUpTo(S, n) == UNION {[1..k -> S] : k \in 0..n}

SeriesDays == {Ymd2Ord(2024, 3, 10)}

LookupTargets ==
    {Ymd2Ord(2024, 1, 30), Ymd2Ord(2024, 1, 31), Ymd2Ord(2024, 2, 20),
     Ymd2Ord(2024, 3, 5)}

InitSeries ==
    /\ today \in SeriesDays
    /\ window = NoWindow
    /\ raw \in SeqsUpTo(SeriesRecords, MaxRecords)
    /\ df = NotBuilt
    /\ target = 0
    /\ found = Absent
    /\ rr = NotComputed
    /\ IdleRun

\* get_nav_data returns a frame (lines 52-57).
BuildSeries ==
    /\ df.state = "none"
    /\ LET o == get_nav_data([status |-> 200, data |-> raw])
       IN  /\ o.exc = ""
           /\ \E f \in o.frames : df' = [state |-> "built", rows |-> f]
    /\ UNCHANGED <<today, window, raw, target, found, rr, runVars>>

\* get_nav_data raises (lines 50-51).
BuildRaises ==
    /\ df.state = "none"
    /\ get_nav_data([status |-> 200, data |-> raw]).exc # ""
    /\ df' = [state |-> "raised", rows |-> <<>>]
    /\ UNCHANGED <<today, window, raw, target, found, rr, runVars>>

\* last_nav_on_or_before(df, t)
Lookup ==
    /\ df.state = "built"
    /\ target = 0
    /\ \E t \in LookupTargets :
        /\ target' = t
        /\ found' = last_nav_on_or_before(df.rows, t)
    /\ UNCHANGED <<today, window, raw, df, rr, runVars>>

\* monthly_rolling_return(df)
Compute ==
    /\ df.state = "built"
    /\ rr.k = "pending"
    /\ rr' = monthly_rolling_return(df.rows, today)
    /\ UNCHANGED <<today, window, raw, df, target, found, runVars>>

NextSeries == BuildSeries \/ BuildRaises \/ Lookup \/ Compute

SpecSeries == InitSeries /\ [][NextSeries]_vars

\* C4: monthly_rolling_return returns a number only if both as-of lookups
\* found an observation, the end observation is dated strictly after the
\* start observation and the start price is not 0; in every other case it
\* returns None, and it never raises.
C4_NumericOnlyIfSound ==
    rr.k # "pending" =>
        LET t1 == last_nav_on_or_before(df.rows, last_day_prev_month(today))
            t0 == last_nav_on_or_before(df.rows, last_day_two_months_ago(today))
            sound == t0.hit /\ t1.hit /\ t1.date > t0.date /\ ~IsZero(t0.nav)
        IN  /\ rr.k # "raise"
            /\ IsNumber(rr) => sound
            /\ ~sound => rr = NoneVal

\* C4 witness: a number was returned from two observations on different
\* dates with different prices.
C4_Witness == rr.k = "fin" /\ rr.n # 0

\* C9: on a series built by get_nav_data, last_nav_on_or_before returns an
\* observation of the series with the greatest date <= target, and None
\* exactly when no observation is dated on or before the target; so the date
\* found for d1 is never later than the date found for d2 when d1 < d2.
C9_AsOfLookup ==
    df.state = "built" =>
        LET rows == df.rows
            OnOrBefore(t) == {i \in 1..Len(rows) : rows[i].date <= t}
        IN  /\ target # 0 =>
                /\ found.hit <=> OnOrBefore(target) # {}
                /\ ~found.hit => found = Absent
                /\ found.hit =>
                    /\ \E i \in OnOrBefore(target) :
                        found.date = rows[i].date /\ found.nav = rows[i].nav
                    /\ \A j \in OnOrBefore(target) : rows[j].date <= found.date
            /\ \A d1, d2 \in LookupTargets :
                LET r1 == last_nav_on_or_before(rows, d1)
                    r2 == last_nav_on_or_before(rows, d2)
                IN  (d1 < d2 /\ r1.hit /\ r2.hit) => r1.date <= r2.date

\* C9 witness: a lookup among three observations found one that is neither
\* the first nor the only candidate.
C9_Witness ==
    /\ df.state = "built"
    /\ Len(df.rows) = 3
    /\ target # 0
    /\ found.hit
    /\ found.date > df.rows[1].date
    /\ found.date < df.rows[3].date

\* C10: the series holds exactly the raw records whose date and price both
\* parse, each with its parsed values and as often as it occurs (nothing is
\* added, altered or partly admitted), ordered by non-decreasing date.
C10_DropOnly ==
    df.state = "built" =>
        LET rows == df.rows
            Parses(r) == ~to_datetime(r.date).nat /\ to_numeric(r.nav).k # "nan"
            Kept == {j \in 1..Len(raw) : Parses(raw[j])}
            Value(r) == [date |-> to_datetime(r.date).ord, nav |-> to_numeric(r.nav)]
            InSeries(v) == Cardinality({i \in 1..Len(rows) : rows[i] = v})
            InRaw(v) == Cardinality({j \in Kept : Value(raw[j]) = v})
        IN  /\ Len(rows) = Cardinality(Kept)
            /\ \A i \in 1..Len(rows) : InSeries(rows[i]) = InRaw(rows[i])
            /\ \A j \in Kept : InSeries(Value(raw[j])) = InRaw(Value(raw[j]))
            /\ \A i \in 1..(Len(rows) - 1) : rows[i].date <= rows[i + 1].date

\* C10 witness: a series of two rows was built from three records given
\* latest first, one of them with an unparseable price.
C10_Witness ==
    /\ df.state = "built"
    /\ Len(raw) = 3
    /\ Len(df.rows) = 2
    /\ to_numeric(raw[2].nav).k = "nan"
    /\ ~to_datetime(raw[1].date).nat
    /\ ~to_datetime(raw[3].date).nat
    /\ to_datetime(raw[1].date).ord > to_datetime(raw[3].date).ord

-----------------------------------------------------------------------------
(* Spec: build_results over a catalog, against a data source.               *)

Plans == <<"Direct", "Regular">>

\* A plan of a category maps to a scheme code, to null, or is not a key.
Missing == "<no key>"
Null == "<null>"
Codes == {"119551", "120503"}

Categories == {"Equity", "Debt"}

AmcNames == <<"Axis", "HDFC", "SBI", "Kotak">>

PlanDicts ==
    {[Direct |-> "119551", Regular |-> "120503"],
     [Direct |-> "120503", Regular |-> Missing],
     [Direct |-> Null, Regular |-> "119551"]}

\* The category dicts of one AMC, by size: no category or one (size 1), two
\* categories in either order (size 2).
CatDicts(size) ==
    IF size = 1
    THEN {<<>>} \cup {<<[category |-> c, plans |-> p]>> : c \in Categories, p \in PlanDicts}
    ELSE {<<[category |-> cc[1], plans |-> pp[1]], [category |-> cc[2], plans |-> pp[2]]>> :
            cc \in {x \in Categories \X Categories : x[1] # x[2]},
            pp \in PlanDicts \X PlanDicts}

\* The catalogs of size <= budget whose first AMC is the k-th name: AMC names
\* are the keys of a dict, so they differ, and so do the categories of an AMC.
RECURSIVE CatalogsFrom(_, _)
CatalogsFrom(k, budget) ==
    {<<>>} \cup
    UNION {{<<[amc |-> AmcNames[k], cats |-> cd]>> \o rest :
                cd \in CatDicts(size), rest \in CatalogsFrom(k + 1, budget - size)} :
            size \in {z \in 1..2 : z <= budget}}

Catalogs == CatalogsFrom(1, MaxRows)

\* What the data source may hold for a code. The API lists the latest
\* observation first.
RespGood ==
    [status |-> 200,
     data |-> <<[date |-> DateText(29, 2, 2024), nav |-> NavText(121)],
                [date |-> DateText(31, 1, 2024), nav |-> NavText(110)],
                [date |-> DateText(29, 12, 2023), nav |-> NavText(100)]>>]
RespInf ==
    [status |-> 200,
     data |-> <<[date |-> DateText(31, 1, 2024), nav |-> NavInf],
                [date |-> DateText(29, 12, 2023), nav |-> NavText(100)],
                [date |-> DateText(1, 12, 2023), nav |-> NavText(-5)]>>]
RespNoNav ==
    [status |-> 200,
     data |-> <<[date |-> DateText(31, 1, 2024), nav |-> NavMissing],
                [date |-> DateText(29, 12, 2023), nav |-> NavMissing]>>]
RespHttp == [status |-> 500, data |-> <<>>]
RespEmpty == [status |-> 200, data |-> <<>>]

Responses == {RespGood, RespInf, RespNoNav, RespHttp, RespEmpty}

\* The data source: every code has a response, and at most one code has a
\* response other than the well-formed one.
Feeds ==
    {f \in [Codes -> Responses] : Cardinality({c \in Codes : f[c] # RespGood}) <= 1}

\* The run starts on the last day of February 2024.
RunStart == Ymd2Ord(2024, 2, 29)

Init ==
    /\ today = RunStart
    /\ window = NoWindow
    /\ IdleSeries
    /\ scheme_codes \in Catalogs
    /\ feed \in Feeds
    /\ pc = "amc"
    /\ ai = 1 /\ ci = 0 /\ pi = 0
    /\ results = <<>>
    /\ row = NotRun
    /\ calls = <<>>
    /\ errors = {}
    /\ ticks = 0

Key(plan) ==
    IF plan = "Direct" THEN "Rolling Return - Direct" ELSE "Rolling Return - Regular"

\* plans.get(plan): None for a plan that is no key and for a null code
plans_get(plans, plan) ==
    IF plans[plan] = Missing THEN Null ELSE plans[plan]

CurAmc == scheme_codes[ai]
CurCat == CurAmc.cats[ci]
CurItem == [amc |-> CurAmc.amc, category |-> CurCat.category, plan |-> Plans[pi]]

\* row[f"Rolling Return - {plan}"] = v
SetField(r, plan, v) == (Key(plan) :> v) @@ r

\* if category not in results: results[category] = []
EnsureCategory(res, category) ==
    IF category \in DOMAIN res THEN res ELSE (category :> <<>>) @@ res

\* Variants of the append of line 119: the row replaces the list, and the row
\* is put first.
AppendRowOverwrites(res, category, r) == [res EXCEPT ![category] = <<r>>]
AppendRowInFront(res, category, r) == [res EXCEPT ![category] = <<r>> \o @]

\* results[category].append(row)
append_row(res, category, r) == [res EXCEPT ![category] = Append(@, r)]

\* A variant of the handler: except RuntimeError
ExceptRuntimeErrorOnly(exc) == exc = "RuntimeError"

\* except Exception as e: every exception the try block raises is caught
except_Exception(exc) == exc \in {"RuntimeError", "KeyError", "ZeroDivisionError"}

\* A variant of the skip that leaves the plan loop (break, not continue).
SkipLeavesLoop(i) == Len(Plans) + 1

\* continue: the loop takes the next plan
skip_continue(i) == i + 1

\* for amc, cat_dict in scheme_codes.items(): the next AMC (lines 92-93)
NextAmc ==
    /\ pc = "amc"
    /\ ai <= Len(scheme_codes)
    /\ pc' = "category"
    /\ ci' = 1
    /\ UNCHANGED <<today, window, seriesVars, scheme_codes, ai, pi, results, row,
                   feed, calls, errors, ticks>>

\* for category, plans in cat_dict.items(): the next category (lines 94-98)
StartRow ==
    /\ pc = "category"
    /\ ci <= Len(CurAmc.cats)
    /\ results' = EnsureCategory(results, CurCat.category)
    /\ row' = [AMC |-> CurAmc.amc]
    /\ pi' = 1
    /\ pc' = "plan"
    /\ UNCHANGED <<today, window, seriesVars, scheme_codes, ai, ci, feed, calls,
                   errors, ticks>>

\* The categories of the AMC are exhausted.
EndAmc ==
    /\ pc = "category"
    /\ ci > Len(CurAmc.cats)
    /\ ai' = ai + 1
    /\ pc' = "amc"
    /\ UNCHANGED <<today, window, seriesVars, scheme_codes, ci, pi, results, row,
                   feed, calls, errors, ticks>>

\* code = plans.get(plan) (line 101)
CurCode == plans_get(CurCat.plans, Plans[pi])

\* code is None (lines 101-105)
SkipPlan ==
    /\ pc = "plan"
    /\ pi <= Len(Plans)
    /\ CurCode = Null
    /\ row' = SetField(row, Plans[pi], NoneVal)
    /\ pi' = skip_continue(pi)
    /\ UNCHANGED <<today, window, seriesVars, scheme_codes, pc, ai, ci, results,
                   feed, calls, errors, ticks>>

CallRecord(code, ok) ==
    [amc |-> CurItem.amc, category |-> CurItem.category, plan |-> CurItem.plan,
     code |-> code, day |-> today, ok |-> ok]

\* The ways the try block runs to its end for a response read on a day: the
\* frame get_nav_data returns and the value monthly_rolling_return computes.
TryReturns(resp, day) ==
    LET o == get_nav_data(resp)
    IN  IF o.exc # "" THEN {}
        ELSE {[df_nav |-> f, rr |-> monthly_rolling_return(f, day)] :
                f \in {g \in o.frames : monthly_rolling_return(g, day).k # "raise"}}

\* What the try block raises for a response read on a day: the exception of
\* get_nav_data, or that of monthly_rolling_return on a frame.
TryRaises(resp, day) ==
    LET o == get_nav_data(resp)
    IN  IF o.exc # "" THEN {o.exc}
        ELSE {"ZeroDivisionError" : f \in {g \in o.frames :
                                            monthly_rolling_return(g, day).k = "raise"}}

\* The days on which a run may read the date; TryReturns and TryRaises are
\* tabulated on them.
RunDays == RunStart..(RunStart + MaxTicks)

TryReturnsOn == [r \in Responses, d \in RunDays |-> TryReturns(r, d)]
TryRaisesOn == [r \in Responses, d \in RunDays |-> TryRaises(r, d)]

\* The try block runs to its end (lines 107-114).
FetchPlan ==
    /\ pc = "plan"
    /\ pi <= Len(Plans)
    /\ CurCode # Null
    /\ \E t \in TryReturnsOn[feed[CurCode], today] :
        /\ df' = [state |-> "built", rows |-> t.df_nav]
        /\ row' = SetField(row, Plans[pi], t.rr)
    /\ calls' = Append(calls, CallRecord(CurCode, TRUE))
    /\ pi' = pi + 1
    /\ UNCHANGED <<today, window, raw, target, found, rr, scheme_codes, pc, ai, ci,
                   results, feed, errors, ticks>>

\* The try block raises (lines 115-118): the handler records None, and an
\* exception it does not catch leaves build_results.
FetchFail ==
    /\ pc = "plan"
    /\ pi <= Len(Plans)
    /\ CurCode # Null
    /\ \E exc \in TryRaisesOn[feed[CurCode], today] :
        IF except_Exception(exc)
        THEN /\ row' = SetField(row, Plans[pi], NoneVal)
             /\ errors' = errors \cup {CurItem}
             /\ pi' = pi + 1
             /\ pc' = pc
        ELSE /\ pc' = "aborted"
             /\ UNCHANGED <<row, errors, pi>>
    /\ calls' = Append(calls, CallRecord(CurCode, FALSE))
    /\ UNCHANGED <<today, window, seriesVars, scheme_codes, ai, ci, results, feed,
                   ticks>>

\* results[category].append(row) (line 119)
AppendRow ==
    /\ pc = "plan"
    /\ pi > Len(Plans)
    /\ results' = append_row(results, CurCat.category, row)
    /\ ci' = ci + 1
    /\ pc' = "category"
    /\ UNCHANGED <<today, window, seriesVars, scheme_codes, ai, pi, row, feed,
                   calls, errors, ticks>>

\* return results (line 120)
Return ==
    /\ pc = "amc"
    /\ ai > Len(scheme_codes)
    /\ pc' = "done"
    /\ UNCHANGED <<today, window, seriesVars, scheme_codes, ai, ci, pi, results,
                   row, feed, calls, errors, ticks>>

\* Midnight passes while build_results runs. The date is read only in the try
\* block (line 67), so the step is taken just before a fetch.
ClockTick ==
    /\ pc = "plan"
    /\ pi <= Len(Plans)
    /\ CurCode # Null
    /\ ticks < MaxTicks
    /\ today' = today + 1
    /\ ticks' = ticks + 1
    /\ UNCHANGED <<window, seriesVars, scheme_codes, pc, ai, ci, pi, results, row,
                   feed, calls, errors>>

Next ==
    \/ NextAmc
    \/ StartRow
    \/ EndAmc
    \/ SkipPlan
    \/ FetchPlan
    \/ FetchFail
    \/ AppendRow
    \/ Return
    \/ ClockTick

Spec == Init /\ [][Next]_vars

-----------------------------------------------------------------------------
(* Properties of build_results. *)

\* The (AMC, category) pairs of the catalog with their plan dicts.
PairsOf(catalog) ==
    UNION {{[amc |-> catalog[i].amc,
             category |-> catalog[i].cats[j].category,
             plans |-> catalog[i].cats[j].plans] : j \in 1..Len(catalog[i].cats)} :
            i \in 1..Len(catalog)}

\* The places of the rows of a pair in the report.
RowsOf(amc, category) ==
    IF category \in DOMAIN results
    THEN {i \in 1..Len(results[category]) : results[category][i].AMC = amc}
    ELSE {}

\* The row that holds the results of a pair: the filed one, or else the one
\* under construction.
HeldRow(amc, category) ==
    IF RowsOf(amc, category) # {}
    THEN results[category][CHOOSE i \in RowsOf(amc, category) : TRUE]
    ELSE row

\* The pairs whose row is under construction, and the plans done in it.
InHand(q) ==
    /\ pc \in {"plan", "aborted"}
    /\ q.amc = CurAmc.amc
    /\ q.category = CurCat.category

\* The plans of pair q that build_results has dealt with.
PlansDone(q) ==
    IF RowsOf(q.amc, q.category) # {} THEN {1, 2}
    ELSE IF InHand(q) THEN {i \in 1..2 : i < pi}
    ELSE {}

\* What the try block leaves in the row for a response read on a day.
Outcomes(resp, day) ==
    LET o == get_nav_data(resp)
        Val(v) == IF v.k = "raise" THEN NoneVal ELSE v
    IN  IF o.exc # "" THEN {NoneVal}
        ELSE {Val(monthly_rolling_return(f, day)) : f \in o.frames}

\* Outcomes, tabulated on the days of a run.
OutcomeTable == [r \in Responses, d \in RunDays |-> Outcomes(r, d)]

\* build_results has a next step to take: the guards of its actions.
CanStep ==
    \/ pc = "amc"
    \/ pc = "category"
    \/ /\ pc = "plan"
       /\ \/ pi > Len(Plans)
          \/ CurCode = Null
          \/ TryReturnsOn[feed[CurCode], today] # {}
          \/ \E exc \in TryRaisesOn[feed[CurCode], today] : except_Exception(exc)

\* C1: an item whose fetch, series construction or calculation raises gets
\* None and nothing else changes: at every moment the result held for each
\* item fetched so far is what its own response and day of call determine,
\* whatever happened to the other items; build_results is never left by an
\* exception, can always take its next step, and has fetched every item that
\* has a code when it returns.
C1_Isolation ==
    /\ pc # "aborted"
    /\ pc # "done" => CanStep
    /\ \A k \in 1..Len(calls) :
        LET c == calls[k]
            held == HeldRow(c.amc, c.category)
        IN  /\ Key(c.plan) \in DOMAIN held
            /\ held[Key(c.plan)] \in OutcomeTable[feed[c.code], c.day]
            /\ ~c.ok => held[Key(c.plan)] = NoneVal
            /\ ~c.ok <=> [amc |-> c.amc, category |-> c.category, plan |-> c.plan] \in errors
    /\ pc = "done" =>
        \A q \in PairsOf(scheme_codes) : \A i \in 1..2 :
            plans_get(q.plans, Plans[i]) # Null =>
                \E k \in 1..Len(calls) :
                    /\ calls[k].amc = q.amc
                    /\ calls[k].category = q.category
                    /\ calls[k].plan = Plans[i]

\* C1 witness: the run returned after a failed item was followed by an item
\* of another row that got a number.
C1_Witness ==
    /\ pc = "done"
    /\ \E j, k \in 1..Len(calls) :
        /\ j < k
        /\ ~calls[j].ok
        /\ calls[k].ok
        /\ calls[j].amc # calls[k].amc
        /\ HeldRow(calls[k].amc, calls[k].category)[Key(calls[k].plan)].k = "fin"

\* C2: when build_results returns, the report holds exactly one row per
\* (AMC, category) pair of the catalog, filed under that category, no other
\* row and no other category, and the row has an entry for each plan the
\* catalog declares for the pair.
C2_OneRowPerPair ==
    pc = "done" =>
        /\ \A q \in PairsOf(scheme_codes) :
            /\ Cardinality(RowsOf(q.amc, q.category)) = 1
            /\ \A i \in 1..2 :
                q.plans[Plans[i]] # Missing =>
                    Key(Plans[i]) \in DOMAIN HeldRow(q.amc, q.category)
        /\ \A c \in DOMAIN results :
            /\ \E q \in PairsOf(scheme_codes) : q.category = c
            /\ \A i \in 1..Len(results[c]) :
                \E q \in PairsOf(scheme_codes) :
                    q.category = c /\ q.amc = results[c][i].AMC

\* C2 witness: the run returned for a catalog of two AMCs with the same
\* category, one of which declares a single plan.
C2_Witness ==
    /\ pc = "done"
    /\ \E q1, q2 \in PairsOf(scheme_codes) :
        /\ q1.amc # q2.amc
        /\ q1.category = q2.category
        /\ q1.plans["Regular"] = Missing

\* C3: a plan without a code is never fetched and never takes the except
\* branch, its entry is None, and the other plan of the pair, if it has a
\* code, is fetched with that code and its result is in the same row.
C3_AbsentCodeSkipped ==
    \A q \in PairsOf(scheme_codes) : \A i \in PlansDone(q) :
        LET plan == Plans[i]
            other == Plans[3 - i]
            item == [amc |-> q.amc, category |-> q.category, plan |-> plan]
            held == HeldRow(q.amc, q.category)
            Fetched(p) == {k \in 1..Len(calls) :
                            /\ calls[k].amc = q.amc
                            /\ calls[k].category = q.category
                            /\ calls[k].plan = p}
        IN  plans_get(q.plans, plan) = Null =>
                /\ Fetched(plan) = {}
                /\ item \notin errors
                /\ Key(plan) \in DOMAIN held
                /\ held[Key(plan)] = NoneVal
                /\ (RowsOf(q.amc, q.category) # {} /\ plans_get(q.plans, other) # Null) =>
                    /\ Cardinality(Fetched(other)) = 1
                    /\ \A k \in Fetched(other) :
                        /\ calls[k].code = q.plans[other]
                        /\ Key(other) \in DOMAIN held
                        /\ held[Key(other)] \in OutcomeTable[feed[calls[k].code], calls[k].day]

\* C3 witness: a filed row holds a number for Direct and None for Regular,
\* which has no code.
C3_Witness ==
    \E q \in PairsOf(scheme_codes) :
        /\ RowsOf(q.amc, q.category) # {}
        /\ q.plans["Regular"] = Missing
        /\ HeldRow(q.amc, q.category)[Key("Regular")] = NoneVal
        /\ HeldRow(q.amc, q.category)[Key("Direct")].k = "fin"

AllRows == UNION {{results[c][i] : i \in 1..Len(results[c])} : c \in DOMAIN results}

\* C5: every result stored in a row is None or a finite number, and every
\* price of a series built is finite and not negative.
C5_FiniteOrNone ==
    /\ \A r \in AllRows \cup {row} : \A f \in DOMAIN r \ {"AMC"} :
        r[f].k \in {"none", "fin"}
    /\ df.state = "built" =>
        \A i \in 1..Len(df.rows) : IsFinite(df.rows[i].nav) /\ df.rows[i].nav.n >= 0

\* C6: all rolling returns of a run are computed against the same pair of
\* reference dates, also when the date changes during the run.
C6_OneWindow ==
    \A j, k \in 1..Len(calls) :
        (calls[j].ok /\ calls[k].ok) =>
            /\ last_day_prev_month(calls[j].day) = last_day_prev_month(calls[k].day)
            /\ last_day_two_months_ago(calls[j].day) = last_day_two_months_ago(calls[k].day)

\* The AMCs of the catalog that have the category, in catalog order.
RECURSIVE AmcsWith(_, _)
AmcsWith(catalog, c) ==
    IF catalog = <<>> THEN <<>>
    ELSE (IF \E j \in 1..Len(Head(catalog).cats) : Head(catalog).cats[j].category = c
          THEN <<Head(catalog).amc>> ELSE <<>>) \o AmcsWith(Tail(catalog), c)

IsPrefix(s, t) == Len(s) <= Len(t) /\ \A i \in 1..Len(s) : s[i] = t[i]

\* C7: the rows of a category are in the order in which the catalog gives
\* their AMCs, and a step changes the report by at most one row added at the
\* end of one category: no category and no row is removed, moved or changed.
C7_AppendOnlyInOrder ==
    /\ [](\A c \in DOMAIN results :
            LET names == [i \in 1..Len(results[c]) |-> results[c][i].AMC]
            IN  /\ IsPrefix(names, AmcsWith(scheme_codes, c))
                /\ pc = "done" => names = AmcsWith(scheme_codes, c))
    /\ [][\A c \in DOMAIN results :
            /\ c \in DOMAIN results'
            /\ IsPrefix(results[c], results'[c])
            /\ Len(results'[c]) <= Len(results[c]) + 1]_vars

\* C7 witness: the run returned with two rows in one category.
C7_Witness ==
    /\ pc = "done"
    /\ \E c \in DOMAIN results : Len(results[c]) = 2

====
